---- MODULE Spec2Model ----
(***************************************************************************)
(* is-even-ai: the query core (core.go), the global single instance        *)
(* (convenience.go) and the backends (gemini.go, the OpenAI adapter).      *)
(*                                                                         *)
(* Strings are sequences of chunks: a literal piece of a format string is  *)
(* one chunk, a formatted integer is one chunk per character.  The empty   *)
(* string is << >>.  An error is the string of its message; the nil error  *)
(* is NilErr.  A *bool is one of True, False, Undefined (the nil pointer). *)
(***************************************************************************)
EXTENDS Integers, Sequences, FiniteSets, TLC

\* Bound of the integer arguments the operations are called with.
MaxInt == 1

Ints == (0 - MaxInt)..MaxInt

VARIABLES
    newArgs,    \* the arguments NewIsEvenAiCore was called with, or NoArgs
    core,       \* the *IsEvenAiCore it returned, or NoCore
    panicked,   \* NewIsEvenAiCore panicked
    call,       \* the last operation called on core, with what it returned
    globalGeminiInstance,  \* the global *IsEvenAiGemini: an index of instances, 0 for nil
    apiKeyIsSet,           \* the global flag
    globalMu,              \* the global mutex: the thread that holds it, 0 when free
    instances,  \* every IsEvenAiGemini constructed so far, in order of construction
    pc,         \* where each thread is: "idle", "SetAPIKey" (in its body) or "run"
    local,      \* the arguments and local variables of each thread's pending call
    ret,        \* what each thread's last completed call returned
    lastSetAPIKey,  \* history: how the most recent completed SetAPIKey ended, or "none"
    made,       \* the last direct NewIsEvenAiGemini call, with what it returned
    answer      \* the last direct call of a backend's queryFunc, with what it returned

coreVars == <<newArgs, core, panicked, call>>

globalVars ==
    <<globalGeminiInstance, apiKeyIsSet, globalMu, instances, pc, local, ret, lastSetAPIKey>>

backendVars == <<made, answer>>

vars == <<newArgs, core, panicked, call,
          globalGeminiInstance, apiKeyIsSet, globalMu, instances, pc, local, ret,
          lastSetAPIKey, made, answer>>

-----------------------------------------------------------------------------
(* Values *)

True == "true"

False == "false"

Undefined == "nil"

Bools == {True, False, Undefined}

NilErr == << >>

\* a negation that negates nothing
Not_identity(b) == b

Not(b) == IF b = True THEN False ELSE True

\* strings.Contains on chunk sequences
Contains(s, sub) ==
    \E i \in 0..(Len(s) - Len(sub)) :
        \A j \in 1..Len(sub) : s[i + j] = sub[j]

\* one chunk of a format string; the empty literal adds nothing
Chunk(lit) == IF lit = "" THEN << >> ELSE <<lit>>

DigitChar(d) == <<"0", "1", "2", "3", "4", "5", "6", "7", "8", "9">>[d + 1]

RECURSIVE Digits(_)
Digits(n) == IF n < 10 THEN <<DigitChar(n)>> ELSE Digits(n \div 10) \o <<DigitChar(n % 10)>>

\* a %d that drops the sign
FormatInt_unsigned(n) == IF n < 0 THEN Digits(0 - n) ELSE Digits(n)

\* the %d verb of fmt.Sprintf
FormatInt(n) == IF n < 0 THEN <<"-">> \o Digits(0 - n) ELSE Digits(n)

\* fmt.Sprintf with one and with two %d verbs
Sprintf1(pre, n, post) == Chunk(pre) \o FormatInt(n) \o Chunk(post)

Sprintf2(pre, a, mid, b, post) ==
    Chunk(pre) \o FormatInt(a) \o Chunk(mid) \o FormatInt(b) \o Chunk(post)

\* fmt.Errorf("<context>: %w", err)
Errorf(context, err) == context \o <<": ">> \o err

-----------------------------------------------------------------------------
(* Prompt templates.  A template function is named by an identifier; the   *)
(* nil function is NilTemplate.                                            *)

NilTemplate == "nil"

PromptNames == {"isEven", "isOdd", "areEqual", "areNotEqual", "isGreaterThan", "isLessThan"}

\* the mock templates of the core tests: "isEven %d", "areEqual %d %d", ...
testPromptTemplates(promptName, args) ==
    CASE promptName = "isEven" -> Sprintf1("isEven ", args[1], "")
      [] promptName = "isOdd" -> Sprintf1("isOdd ", args[1], "")
      [] promptName = "areEqual" -> Sprintf2("areEqual ", args[1], " ", args[2], "")
      [] promptName = "areNotEqual" -> Sprintf2("areNotEqual ", args[1], " ", args[2], "")
      [] promptName = "isGreaterThan" -> Sprintf2("isGreaterThan ", args[1], " ", args[2], "")
      [] promptName = "isLessThan" -> Sprintf2("isLessThan ", args[1], " ", args[2], "")

\* DefaultGeminiPromptTemplates
geminiPromptTemplates(promptName, args) ==
    CASE promptName = "isEven" -> Sprintf1("Is ", args[1], " an even number?")
      [] promptName = "isOdd" -> Sprintf1("Is ", args[1], " an odd number?")
      [] promptName = "areEqual" -> Sprintf2("Are ", args[1], " and ", args[2], " equal?")
      [] promptName = "areNotEqual" ->
            Sprintf2("Are ", args[1], " and ", args[2], " not equal?")
      [] promptName = "isGreaterThan" ->
            Sprintf2("Is ", args[1], " greater than ", args[2], "?")
      [] promptName = "isLessThan" -> Sprintf2("Is ", args[1], " less than ", args[2], "?")

\* DefaultOpenAiPromptTemplates
openAiPromptTemplates(promptName, args) ==
    CASE promptName = "isEven" -> Sprintf1("Is ", args[1], " an even number?")
      [] promptName = "isOdd" -> Sprintf1("Is ", args[1], " an odd number?")
      [] promptName = "areEqual" -> Sprintf2("Are ", args[1], " and ", args[2], " equal?")
      [] promptName = "areNotEqual" ->
            Sprintf2("Are ", args[1], " and ", args[2], " not equal?")
      [] promptName = "isGreaterThan" ->
            Sprintf2("Is ", args[1], " greater than ", args[2], "?")
      [] promptName = "isLessThan" -> Sprintf2("Is ", args[1], " less than ", args[2], "?")

\* a template function whose result is the empty string
emptyPromptTemplate(promptName, args) == << >>

\* the template functions a template set is built from
TemplateFuncs == {"test", "empty"}

\* calling the template function f held in the slot promptName
CallTemplate(f, promptName, args) ==
    CASE f = "test" -> testPromptTemplates(promptName, args)
      [] f = "empty" -> emptyPromptTemplate(promptName, args)
      [] f = "gemini" -> geminiPromptTemplates(promptName, args)
      [] f = "openai" -> openAiPromptTemplates(promptName, args)

DefaultOpenAiPromptTemplates ==
    [IsEven |-> "openai", IsOdd |-> "openai", AreEqual |-> "openai",
     AreNotEqual |-> "openai", IsGreaterThan |-> "openai", IsLessThan |-> "openai"]

\* default templates of Gemini without the one of IsOdd
DefaultGeminiPromptTemplates_noIsOdd ==
    [IsEven |-> "gemini", IsOdd |-> NilTemplate, AreEqual |-> "gemini",
     AreNotEqual |-> "gemini", IsGreaterThan |-> "gemini", IsLessThan |-> "gemini"]

DefaultGeminiPromptTemplates ==
    [IsEven |-> "gemini", IsOdd |-> "gemini", AreEqual |-> "gemini",
     AreNotEqual |-> "gemini", IsGreaterThan |-> "gemini", IsLessThan |-> "gemini"]

\* IsEvenAiCorePromptTemplates: one slot per operation
IsEvenAiCorePromptTemplates ==
    [IsEven : TemplateFuncs \cup {NilTemplate},
     IsOdd : TemplateFuncs \cup {NilTemplate},
     AreEqual : TemplateFuncs \cup {NilTemplate},
     AreNotEqual : TemplateFuncs \cup {NilTemplate},
     IsGreaterThan : TemplateFuncs \cup {NilTemplate},
     IsLessThan : TemplateFuncs \cup {NilTemplate}]

\* the slot of a template set that holds the template of promptName
Slot(templates, promptName) ==
    CASE promptName = "isEven" -> templates.IsEven
      [] promptName = "isOdd" -> templates.IsOdd
      [] promptName = "areEqual" -> templates.AreEqual
      [] promptName = "areNotEqual" -> templates.AreNotEqual
      [] promptName = "isGreaterThan" -> templates.IsGreaterThan
      [] promptName = "isLessThan" -> templates.IsLessThan

-----------------------------------------------------------------------------
(* Querying functions *)

\* the error the mock query function is set to return
queryError == <<"AI query failed">>

\* the nil QueryFunc
NilQuery == [kind |-> "nil", returnValue |-> Undefined, returnError |-> NilErr]

\* mockQueryFunc: returns what it was set to return
MockQueryFuncs ==
    [kind : {"mock"}, returnValue : Bools, returnError : {NilErr, queryError}]

\* mockQueryFunc.query
mockQuery(q, prompt) == [res |-> q.returnValue, err |-> q.returnError]

\* The answer of the Gemini backend to one GenerateContent call: the call
\* fails, or the response has no candidate or part (with or without a block
\* reason), or its first part is not text, or it is the text given.
Texts ==
    {<<"t", "r", "u", "e">>,
     <<" ", "T", "R", "U", "E", "\n">>,
     <<"F", "a", "l", "s", "e">>,
     <<"t", "r", "u", "e", ".">>,
     <<"y", "e", "s">>,
     << >>}

Responses ==
    [kind : {"error", "nontext"}, blocked : {FALSE}, text : {<< >>}]
    \cup [kind : {"empty"}, blocked : BOOLEAN, text : {<< >>}]
    \cup [kind : {"text"}, blocked : {FALSE}, text : Texts]

IsSpace(ch) == ch \in {" ", "\n", "\t", "\r"}

RECURSIVE TrimLeft(_)
TrimLeft(str) ==
    IF str # << >> /\ IsSpace(Head(str)) THEN TrimLeft(Tail(str)) ELSE str

RECURSIVE TrimRight(_)
TrimRight(str) ==
    IF str # << >> /\ IsSpace(str[Len(str)])
    THEN TrimRight(SubSeq(str, 1, Len(str) - 1))
    ELSE str

\* a TrimSpace that trims the front only
TrimSpace_leftOnly(str) == TrimLeft(str)

\* strings.TrimSpace
TrimSpace(str) == TrimRight(TrimLeft(str))

LowerChar(ch) ==
    CASE ch = "T" -> "t" [] ch = "R" -> "r" [] ch = "U" -> "u" [] ch = "E" -> "e"
      [] ch = "F" -> "f" [] ch = "A" -> "a" [] ch = "L" -> "l" [] ch = "S" -> "s"
      [] ch = "Y" -> "y" [] OTHER -> ch

\* strings.ToLower
ToLower(str) == [i \in 1..Len(str) |-> LowerChar(str[i])]

\* the queryFunc closure of NewIsEvenAiGemini, given the backend's answer
queryFunc(resp, prompt) ==
    IF resp.kind = "error"
    THEN [res |-> Undefined,
          err |-> Errorf(<<"failed to generate content from Gemini API">>, <<"backend error">>)]
    ELSE IF resp.kind = "empty"
    THEN IF resp.blocked
         THEN [res |-> Undefined,
               err |-> <<"Gemini API request blocked, reason: ", "BlockReasonSafety">>]
         ELSE [res |-> Undefined, err |-> NilErr]
    ELSE IF resp.kind = "nontext"
    THEN [res |-> Undefined,
          err |-> <<"unexpected response part type: ", "genai.Blob", " from Gemini API">>]
    ELSE LET responseContent == ToLower(TrimSpace(resp.text))
         IN  IF responseContent = <<"t", "r", "u", "e">>
             THEN [res |-> True, err |-> NilErr]
             ELSE IF responseContent = <<"f", "a", "l", "s", "e">>
             THEN [res |-> False, err |-> NilErr]
             ELSE [res |-> Undefined, err |-> NilErr]

\* the queryFunc of an IsEvenAiGemini whose backend answers resp
GeminiQuery(resp) == [kind |-> "gemini", resp |-> resp]

\* strconv.Atoi on the characters of a formatted integer
DigitValue(ch) == CHOOSE d \in 0..9 : DigitChar(d) = ch

RECURSIVE ParseDigits(_)
ParseDigits(str) ==
    IF str = << >> THEN 0
    ELSE ParseDigits(SubSeq(str, 1, Len(str) - 1)) * 10 + DigitValue(str[Len(str)])

Atoi(str) == IF Head(str) = "-" THEN 0 - ParseDigits(Tail(str)) ELSE ParseDigits(str)

\* the integers of a prompt of the test templates, "<name> %d" or
\* "<name> %d %d": what follows the name, cut at the blank if there is one
PromptInts(prompt) ==
    LET rest == Tail(prompt)
        blanks == {i \in 1..Len(rest) : rest[i] = " "}
    IN  IF blanks = {}
        THEN <<Atoi(rest)>>
        ELSE LET i == CHOOSE j \in blanks : TRUE
             IN  <<Atoi(SubSeq(rest, 1, i - 1)), Atoi(SubSeq(rest, i + 1, Len(rest)))>>

BoolOf(b) == IF b THEN True ELSE False

\* a truthful QueryFunc: it reads the question and the integers of a prompt
\* of the test templates and answers what is the case, and answers
\* undefined to any other prompt
TruthfulQuery == [kind |-> "truthful", returnValue |-> Undefined, returnError |-> NilErr]

truthfulQuery(prompt) ==
    IF prompt = << >>
    THEN [res |-> Undefined, err |-> NilErr]
    ELSE LET n == PromptInts(prompt)
         IN  [res |-> CASE Head(prompt) = "isEven " -> BoolOf(n[1] % 2 = 0)
                        [] Head(prompt) = "isOdd " -> BoolOf(n[1] % 2 = 1)
                        [] Head(prompt) = "areEqual " -> BoolOf(n[1] = n[2])
                        [] Head(prompt) = "areNotEqual " -> BoolOf(n[1] # n[2])
                        [] Head(prompt) = "isGreaterThan " -> BoolOf(n[1] > n[2])
                        [] Head(prompt) = "isLessThan " -> BoolOf(n[1] < n[2])
                        [] OTHER -> Undefined,
              err |-> NilErr]

\* the queryFunc closure of NewIsEvenAiOpenAi, given the backend's answer:
\* the request cannot be sent, or the status is not 200, or the body does not
\* decode, or it decodes to no choice, or to a first choice with the content
\* given
openAiQueryFunc(resp, prompt) ==
    IF resp.kind = "error"
    THEN [res |-> Undefined,
          err |-> Errorf(<<"failed to send request to OpenAI API">>, <<"backend error">>)]
    ELSE IF resp.kind = "status"
    THEN [res |-> Undefined,
          err |-> <<"OpenAI API request failed with status ", "500", ": ", "body">>]
    ELSE IF resp.kind = "malformed"
    THEN [res |-> Undefined,
          err |-> Errorf(<<"failed to decode OpenAI API response">>, <<"decode error">>)]
    ELSE IF resp.kind = "nochoices" \/ resp.text = << >>
    THEN [res |-> Undefined, err |-> NilErr]
    ELSE LET responseContent == ToLower(TrimSpace(resp.text))
         IN  IF responseContent = <<"t", "r", "u", "e">>
             THEN [res |-> True, err |-> NilErr]
             ELSE IF responseContent = <<"f", "a", "l", "s", "e">>
             THEN [res |-> False, err |-> NilErr]
             ELSE [res |-> Undefined, err |-> NilErr]

\* the queryFunc of an IsEvenAiOpenAi whose backend answers resp
OpenAiQuery(resp) == [kind |-> "openai", resp |-> resp]

\* calling the QueryFunc q with a prompt: the (result, err) pair it returns
Query(q, prompt) ==
    IF q.kind = "gemini" THEN queryFunc(q.resp, prompt)
    ELSE IF q.kind = "openai" THEN openAiQueryFunc(q.resp, prompt)
    ELSE IF q.kind = "truthful" THEN truthfulQuery(prompt)
    ELSE mockQuery(q, prompt)

\* The texts a backend answers with when a queryFunc is called on its own:
\* a word, with white space before and after it or without.
AnswerWords ==
    {<<"t", "r", "u", "e">>, <<"T", "R", "U", "E">>, <<"T", "r", "u", "e">>,
     <<"t", "R", "u", "E">>,
     <<"f", "a", "l", "s", "e">>, <<"F", "A", "L", "S", "E">>, <<"F", "a", "l", "s", "e">>,
     <<"t", "r", "u", "e", ".">>, <<"t", "r", " ", "u", "e">>,
     <<"t", "r", "u", "e", "f", "a", "l", "s", "e">>,
     <<"t">>, <<"y", "e", "s">>, <<"1">>, << >>}

AnswerSpaces == {<< >>, <<" ">>, <<"\n", "\t">>}

AnswerTexts == {pre \o w \o post : pre \in AnswerSpaces, w \in AnswerWords, post \in AnswerSpaces}

\* the answers of the Gemini backend with these texts
GeminiAnswers ==
    [kind : {"error", "nontext"}, blocked : {FALSE}, text : {<< >>}]
    \cup [kind : {"empty"}, blocked : BOOLEAN, text : {<< >>}]
    \cup [kind : {"text"}, blocked : {FALSE}, text : AnswerTexts]

\* the answers of the OpenAI backend; filtered is whether the backend
\* withheld the content of the choice (finish_reason "content_filter")
OpenAiAnswers ==
    [kind : {"error", "status", "malformed"}, filtered : {FALSE}, text : {<< >>}]
    \cup [kind : {"nochoices"}, filtered : {FALSE}, text : {<< >>}]
    \cup [kind : {"text"}, filtered : {TRUE}, text : {<< >>}]
    \cup [kind : {"text"}, filtered : {FALSE}, text : AnswerTexts]

-----------------------------------------------------------------------------
(* IsEvenAiCore *)

NoCore == [none |-> TRUE]

\* what an operation returned: the (result, err) pair, the prompts the
\* QueryFunc was called with, in order, and the operations that ran, in order
Ret(res, err, prompts, trace) ==
    [res |-> res, err |-> err, prompts |-> prompts, trace |-> trace]

MandatoryErr(promptName) ==
    <<promptName, " prompt template is ", "mandatory and not defined">>

NotEnoughErr(promptName) ==
    <<"not enough arguments", " for ", promptName, " prompt">>

Arity(promptName) == IF promptName \in {"isEven", "isOdd"} THEN 1 ELSE 2

Mandatory == {"isEven", "areEqual", "isGreaterThan"}

\* getPrompt that treats a missing mandatory template like a missing optional one
getPrompt_mandatoryAsOptional(c, promptName, args) ==
    IF promptName \notin PromptNames
    THEN [prompt |-> << >>, err |-> <<"unknown prompt name", ": ", promptName>>]
    ELSE IF Slot(c.promptTemplates, promptName) = NilTemplate
    THEN [prompt |-> << >>, err |-> NilErr]
    ELSE IF Len(args) < Arity(promptName)
    THEN [prompt |-> << >>, err |-> NotEnoughErr(promptName)]
    ELSE [prompt |-> CallTemplate(Slot(c.promptTemplates, promptName), promptName, args),
          err |-> NilErr]

\* getPrompt that counts the arguments before it looks at the template
getPrompt_argsFirst(c, promptName, args) ==
    IF promptName \notin PromptNames
    THEN [prompt |-> << >>, err |-> <<"unknown prompt name", ": ", promptName>>]
    ELSE IF Len(args) < Arity(promptName)
    THEN [prompt |-> << >>, err |-> NotEnoughErr(promptName)]
    ELSE IF Slot(c.promptTemplates, promptName) = NilTemplate
    THEN IF promptName \in Mandatory
         THEN [prompt |-> << >>, err |-> MandatoryErr(promptName)]
         ELSE [prompt |-> << >>, err |-> NilErr]
    ELSE [prompt |-> CallTemplate(Slot(c.promptTemplates, promptName), promptName, args),
          err |-> NilErr]

getPrompt(c, promptName, args) ==
    IF promptName \notin PromptNames
    THEN [prompt |-> << >>, err |-> <<"unknown prompt name", ": ", promptName>>]
    ELSE IF Slot(c.promptTemplates, promptName) = NilTemplate
    THEN IF promptName \in Mandatory
         THEN [prompt |-> << >>, err |-> MandatoryErr(promptName)]
         ELSE [prompt |-> << >>, err |-> NilErr]
    ELSE IF Len(args) < Arity(promptName)
    THEN [prompt |-> << >>, err |-> NotEnoughErr(promptName)]
    ELSE [prompt |-> CallTemplate(Slot(c.promptTemplates, promptName), promptName, args),
          err |-> NilErr]

\* IsEven that asks once more when the QueryFunc returns an error
IsEven_retry(c, n) ==
    LET p == getPrompt(c, "isEven", <<n>>)
    IN  IF p.err # NilErr
        THEN Ret(Undefined, Errorf(<<"failed to get prompt for ", "IsEven">>, p.err),
                 << >>, <<"IsEven">>)
        ELSE LET q == Query(c.query, p.prompt)
             IN  IF q.err # NilErr
                 THEN Ret(q.res, q.err, <<p.prompt, p.prompt>>, <<"IsEven">>)
                 ELSE Ret(q.res, q.err, <<p.prompt>>, <<"IsEven">>)

IsEven(c, n) ==
    LET p == getPrompt(c, "isEven", <<n>>)
    IN  IF p.err # NilErr
        THEN Ret(Undefined, Errorf(<<"failed to get prompt for ", "IsEven">>, p.err),
                 << >>, <<"IsEven">>)
        ELSE LET q == Query(c.query, p.prompt)
             IN  Ret(q.res, q.err, <<p.prompt>>, <<"IsEven">>)

\* IsOdd that reads an undefined IsEven result as false
IsOdd_nilAsFalse(c, n) ==
    LET p == getPrompt(c, "isOdd", <<n>>)
    IN  IF p.prompt = << >>
        THEN LET isEvenResult == IsEven(c, n)
             IN  IF isEvenResult.err # NilErr
                 THEN Ret(Undefined,
                          Errorf(<<"failed to determine ", "IsOdd", " by inverting ", "IsEven">>,
                                 isEvenResult.err),
                          isEvenResult.prompts, <<"IsOdd">> \o isEvenResult.trace)
                 ELSE Ret(Not(isEvenResult.res), NilErr,
                          isEvenResult.prompts, <<"IsOdd">> \o isEvenResult.trace)
        ELSE LET q == Query(c.query, p.prompt)
             IN  Ret(q.res, q.err, <<p.prompt>>, <<"IsOdd">>)

\* IsOdd that negates what IsEven returned along with an error
IsOdd_negatesOnError(c, n) ==
    LET p == getPrompt(c, "isOdd", <<n>>)
    IN  IF ~(p.err # NilErr /\ p.prompt = << >>) /\ p.err # NilErr
        THEN Ret(Undefined, Errorf(<<"failed to get prompt for ", "IsOdd">>, p.err),
                 << >>, <<"IsOdd">>)
        ELSE IF p.prompt = << >>
        THEN LET isEvenResult == IsEven(c, n)
             IN  IF isEvenResult.err # NilErr
                 THEN Ret(Not(isEvenResult.res),
                          Errorf(<<"failed to determine ", "IsOdd", " by inverting ", "IsEven">>,
                                 isEvenResult.err),
                          isEvenResult.prompts, <<"IsOdd">> \o isEvenResult.trace)
                 ELSE IF isEvenResult.res = Undefined
                 THEN Ret(Undefined, NilErr,
                          isEvenResult.prompts, <<"IsOdd">> \o isEvenResult.trace)
                 ELSE Ret(Not(isEvenResult.res), NilErr,
                          isEvenResult.prompts, <<"IsOdd">> \o isEvenResult.trace)
        ELSE LET q == Query(c.query, p.prompt)
             IN  Ret(q.res, q.err, <<p.prompt>>, <<"IsOdd">>)

IsOdd(c, n) ==
    LET p == getPrompt(c, "isOdd", <<n>>)
    IN  IF ~(p.err # NilErr /\ p.prompt = << >>) /\ p.err # NilErr
        THEN Ret(Undefined, Errorf(<<"failed to get prompt for ", "IsOdd">>, p.err),
                 << >>, <<"IsOdd">>)
        ELSE IF p.prompt = << >>
        THEN LET isEvenResult == IsEven(c, n)
             IN  IF isEvenResult.err # NilErr
                 THEN Ret(Undefined,
                          Errorf(<<"failed to determine ", "IsOdd", " by inverting ", "IsEven">>,
                                 isEvenResult.err),
                          isEvenResult.prompts, <<"IsOdd">> \o isEvenResult.trace)
                 ELSE IF isEvenResult.res = Undefined
                 THEN Ret(Undefined, NilErr,
                          isEvenResult.prompts, <<"IsOdd">> \o isEvenResult.trace)
                 ELSE Ret(Not(isEvenResult.res), NilErr,
                          isEvenResult.prompts, <<"IsOdd">> \o isEvenResult.trace)
        ELSE LET q == Query(c.query, p.prompt)
             IN  Ret(q.res, q.err, <<p.prompt>>, <<"IsOdd">>)

\* AreEqual that returns the error of getPrompt as it is
AreEqual_unnamed(c, a, b) ==
    LET p == getPrompt(c, "areEqual", <<a, b>>)
    IN  IF p.err # NilErr
        THEN Ret(Undefined, p.err, << >>, <<"AreEqual">>)
        ELSE LET q == Query(c.query, p.prompt)
             IN  Ret(q.res, q.err, <<p.prompt>>, <<"AreEqual">>)

AreEqual(c, a, b) ==
    LET p == getPrompt(c, "areEqual", <<a, b>>)
    IN  IF p.err # NilErr
        THEN Ret(Undefined, Errorf(<<"failed to get prompt for ", "AreEqual">>, p.err),
                 << >>, <<"AreEqual">>)
        ELSE LET q == Query(c.query, p.prompt)
             IN  Ret(q.res, q.err, <<p.prompt>>, <<"AreEqual">>)

\* AreNotEqual whose fallback error does not wrap the error of AreEqual
AreNotEqual_unwrapped(c, a, b) ==
    LET p == getPrompt(c, "areNotEqual", <<a, b>>)
    IN  IF p.prompt = << >>
        THEN LET areEqualResult == AreEqual(c, a, b)
             IN  IF areEqualResult.err # NilErr
                 THEN Ret(Undefined,
                          <<"failed to determine ", "AreNotEqual", " by inverting ", "AreEqual">>,
                          areEqualResult.prompts, <<"AreNotEqual">> \o areEqualResult.trace)
                 ELSE IF areEqualResult.res = Undefined
                 THEN Ret(Undefined, NilErr,
                          areEqualResult.prompts, <<"AreNotEqual">> \o areEqualResult.trace)
                 ELSE Ret(Not(areEqualResult.res), NilErr,
                          areEqualResult.prompts, <<"AreNotEqual">> \o areEqualResult.trace)
        ELSE LET q == Query(c.query, p.prompt)
             IN  Ret(q.res, q.err, <<p.prompt>>, <<"AreNotEqual">>)

AreNotEqual(c, a, b) ==
    LET p == getPrompt(c, "areNotEqual", <<a, b>>)
    IN  IF ~(p.err # NilErr /\ p.prompt = << >>) /\ p.err # NilErr
        THEN Ret(Undefined, Errorf(<<"failed to get prompt for ", "AreNotEqual">>, p.err),
                 << >>, <<"AreNotEqual">>)
        ELSE IF p.prompt = << >>
        THEN LET areEqualResult == AreEqual(c, a, b)
             IN  IF areEqualResult.err # NilErr
                 THEN Ret(Undefined,
                          Errorf(<<"failed to determine ", "AreNotEqual", " by inverting ",
                                   "AreEqual">>, areEqualResult.err),
                          areEqualResult.prompts, <<"AreNotEqual">> \o areEqualResult.trace)
                 ELSE IF areEqualResult.res = Undefined
                 THEN Ret(Undefined, NilErr,
                          areEqualResult.prompts, <<"AreNotEqual">> \o areEqualResult.trace)
                 ELSE Ret(Not(areEqualResult.res), NilErr,
                          areEqualResult.prompts, <<"AreNotEqual">> \o areEqualResult.trace)
        ELSE LET q == Query(c.query, p.prompt)
             IN  Ret(q.res, q.err, <<p.prompt>>, <<"AreNotEqual">>)

\* IsGreaterThan that hands its arguments to the template in the wrong order
IsGreaterThan_swapped(c, a, b) ==
    LET p == getPrompt(c, "isGreaterThan", <<b, a>>)
    IN  IF p.err # NilErr
        THEN Ret(Undefined, Errorf(<<"failed to get prompt for ", "IsGreaterThan">>, p.err),
                 << >>, <<"IsGreaterThan">>)
        ELSE LET q == Query(c.query, p.prompt)
             IN  Ret(q.res, q.err, <<p.prompt>>, <<"IsGreaterThan">>)

IsGreaterThan(c, a, b) ==
    LET p == getPrompt(c, "isGreaterThan", <<a, b>>)
    IN  IF p.err # NilErr
        THEN Ret(Undefined, Errorf(<<"failed to get prompt for ", "IsGreaterThan">>, p.err),
                 << >>, <<"IsGreaterThan">>)
        ELSE LET q == Query(c.query, p.prompt)
             IN  Ret(q.res, q.err, <<p.prompt>>, <<"IsGreaterThan">>)

\* IsLessThan whose fallback asks IsGreaterThan(a,b)
IsLessThan_unswapped(c, a, b) ==
    LET p == getPrompt(c, "isLessThan", <<a, b>>)
    IN  IF p.prompt = << >>
        THEN LET isGreaterThanResult == IsGreaterThan(c, a, b)
             IN  IF isGreaterThanResult.err # NilErr
                 THEN Ret(Undefined,
                          Errorf(<<"failed to determine ", "IsLessThan", " by inverting ",
                                   "IsGreaterThan(b,a)">>, isGreaterThanResult.err),
                          isGreaterThanResult.prompts,
                          <<"IsLessThan">> \o isGreaterThanResult.trace)
                 ELSE IF isGreaterThanResult.res = Undefined
                 THEN Ret(Undefined, NilErr, isGreaterThanResult.prompts,
                          <<"IsLessThan">> \o isGreaterThanResult.trace)
                 ELSE Ret(Not(isGreaterThanResult.res), NilErr, isGreaterThanResult.prompts,
                          <<"IsLessThan">> \o isGreaterThanResult.trace)
        ELSE LET q == Query(c.query, p.prompt)
             IN  Ret(q.res, q.err, <<p.prompt>>, <<"IsLessThan">>)

\* IsLessThan that asks AreNotEqual, which may ask AreEqual in turn
IsLessThan_deep(c, a, b) ==
    LET r == AreNotEqual(c, a, b)
    IN  Ret(r.res, r.err, r.prompts, <<"IsLessThan">> \o r.trace)

IsLessThan(c, a, b) ==
    LET p == getPrompt(c, "isLessThan", <<a, b>>)
    IN  IF ~(p.err # NilErr /\ p.prompt = << >>) /\ p.err # NilErr
        THEN Ret(Undefined, Errorf(<<"failed to get prompt for ", "IsLessThan">>, p.err),
                 << >>, <<"IsLessThan">>)
        ELSE IF p.prompt = << >>
        THEN LET isGreaterThanResult == IsGreaterThan(c, b, a)
             IN  IF isGreaterThanResult.err # NilErr
                 THEN Ret(Undefined,
                          Errorf(<<"failed to determine ", "IsLessThan", " by inverting ",
                                   "IsGreaterThan(b,a)">>, isGreaterThanResult.err),
                          isGreaterThanResult.prompts,
                          <<"IsLessThan">> \o isGreaterThanResult.trace)
                 ELSE IF isGreaterThanResult.res = Undefined
                 THEN Ret(Undefined, NilErr, isGreaterThanResult.prompts,
                          <<"IsLessThan">> \o isGreaterThanResult.trace)
                 ELSE Ret(Not(isGreaterThanResult.res), NilErr, isGreaterThanResult.prompts,
                          <<"IsLessThan">> \o isGreaterThanResult.trace)
        ELSE LET q == Query(c.query, p.prompt)
             IN  Ret(q.res, q.err, <<p.prompt>>, <<"IsLessThan">>)

-----------------------------------------------------------------------------
(* The core under test *)

NoCall == [op |-> "none", args |-> << >>, ret |-> Ret(Undefined, NilErr, << >>, << >>)]

NoArgs == [none |-> TRUE]

\* NewIsEvenAiCore that returns a core for the nil QueryFunc
NewIsEvenAiCore_noPanic ==
    /\ newArgs = NoArgs
    /\ \E templates \in IsEvenAiCorePromptTemplates, query \in MockQueryFuncs \cup {NilQuery} :
        /\ newArgs' = [templates |-> templates, query |-> query]
        /\ panicked' = FALSE
        /\ core' = [promptTemplates |-> templates, query |-> query]
    /\ call' = NoCall
    /\ UNCHANGED globalVars
    /\ UNCHANGED backendVars

\* NewIsEvenAiCore(templates, query): panics on the nil QueryFunc
NewIsEvenAiCore ==
    /\ newArgs = NoArgs
    /\ \E templates \in IsEvenAiCorePromptTemplates, query \in MockQueryFuncs \cup {NilQuery} :
        /\ newArgs' = [templates |-> templates, query |-> query]
        /\ IF query = NilQuery
           THEN /\ panicked' = TRUE
                /\ core' = NoCore
           ELSE /\ panicked' = FALSE
                /\ core' = [promptTemplates |-> templates, query |-> query]
    /\ call' = NoCall
    /\ UNCHANGED globalVars
    /\ UNCHANGED backendVars

\* NewIsEvenAiCore(templates, query) with a truthful QueryFunc
NewTruthfulCore ==
    /\ newArgs = NoArgs
    /\ \E templates \in IsEvenAiCorePromptTemplates :
        /\ newArgs' = [templates |-> templates, query |-> TruthfulQuery]
        /\ core' = [promptTemplates |-> templates, query |-> TruthfulQuery]
    /\ panicked' = FALSE
    /\ call' = NoCall
    /\ UNCHANGED globalVars
    /\ UNCHANGED backendVars

\* mockQueryFunc.reset(): the test forgets the last call before the next one
reset ==
    /\ call # NoCall
    /\ call' = NoCall
    /\ UNCHANGED <<newArgs, core, panicked>>
    /\ UNCHANGED globalVars
    /\ UNCHANGED backendVars

CallIsEven ==
    /\ core # NoCore
    /\ call = NoCall
    /\ \E n \in Ints :
        call' = [op |-> "IsEven", args |-> <<n>>, ret |-> IsEven(core, n)]
    /\ UNCHANGED <<newArgs, core, panicked>>
    /\ UNCHANGED globalVars
    /\ UNCHANGED backendVars

CallIsOdd ==
    /\ core # NoCore
    /\ call = NoCall
    /\ \E n \in Ints :
        call' = [op |-> "IsOdd", args |-> <<n>>, ret |-> IsOdd(core, n)]
    /\ UNCHANGED <<newArgs, core, panicked>>
    /\ UNCHANGED globalVars
    /\ UNCHANGED backendVars

CallAreEqual ==
    /\ core # NoCore
    /\ call = NoCall
    /\ \E a \in Ints, b \in Ints :
        call' = [op |-> "AreEqual", args |-> <<a, b>>, ret |-> AreEqual(core, a, b)]
    /\ UNCHANGED <<newArgs, core, panicked>>
    /\ UNCHANGED globalVars
    /\ UNCHANGED backendVars

CallAreNotEqual ==
    /\ core # NoCore
    /\ call = NoCall
    /\ \E a \in Ints, b \in Ints :
        call' = [op |-> "AreNotEqual", args |-> <<a, b>>, ret |-> AreNotEqual(core, a, b)]
    /\ UNCHANGED <<newArgs, core, panicked>>
    /\ UNCHANGED globalVars
    /\ UNCHANGED backendVars

CallIsGreaterThan ==
    /\ core # NoCore
    /\ call = NoCall
    /\ \E a \in Ints, b \in Ints :
        call' = [op |-> "IsGreaterThan", args |-> <<a, b>>,
                 ret |-> IsGreaterThan(core, a, b)]
    /\ UNCHANGED <<newArgs, core, panicked>>
    /\ UNCHANGED globalVars
    /\ UNCHANGED backendVars

CallIsLessThan ==
    /\ core # NoCore
    /\ call = NoCall
    /\ \E a \in Ints, b \in Ints :
        call' = [op |-> "IsLessThan", args |-> <<a, b>>, ret |-> IsLessThan(core, a, b)]
    /\ UNCHANGED <<newArgs, core, panicked>>
    /\ UNCHANGED globalVars
    /\ UNCHANGED backendVars

\* the argument lists getPrompt is called with: none, one or two integers
PromptArgs == {<< >>} \cup {<<n>> : n \in Ints} \cup {<<a, b>> : a \in Ints, b \in Ints}

\* core.getPrompt(promptName, args...) called directly, as
\* TestIsEvenAiCore_GetPromptErrors calls it
CallGetPrompt ==
    /\ core # NoCore
    /\ call = NoCall
    /\ \E promptName \in PromptNames \cup {"unknownPrompt"}, args \in PromptArgs :
        call' = [op |-> "getPrompt", name |-> promptName, args |-> args,
                 ret |-> getPrompt(core, promptName, args)]
    /\ UNCHANGED <<newArgs, core, panicked>>
    /\ UNCHANGED globalVars
    /\ UNCHANGED backendVars

-----------------------------------------------------------------------------
(* IsEvenAiGemini and the global single instance *)

\* Bound of the number of IsEvenAiGemini instances constructed in a run.
MaxInstances == 2

APIKeys == {"", "key-1", "key-2"}

Models == {"", "gemini-pro"}

\* GeminiModelOptions.Temperature: the nil pointer or a value
NilTemperature == "nil"

Temperatures == {NilTemperature, "0.7"}

DefaultModel == "gemini-2.0-flash-lite"

DefaultTemperature == "0.0"

NoInstance == [none |-> TRUE]

\* NewIsEvenAiGemini with the model options ignored
NewIsEvenAiGemini_defaultOptions(apiKey, model, temperature, clientFails) ==
    IF apiKey = ""
    THEN [ai |-> NoInstance, err |-> <<"Gemini API key is required">>]
    ELSE IF clientFails
    THEN [ai |-> NoInstance,
          err |-> Errorf(<<"failed to create Gemini client">>, <<"client error">>)]
    ELSE [ai |-> [apiKey |-> apiKey, modelName |-> DefaultModel,
                  temperature |-> DefaultTemperature, closed |-> 0],
          err |-> NilErr]

\* NewIsEvenAiGemini(clientOpts, modelConfigOpts...): (instance, err);
\* clientFails is whether genai.NewClient returns an error
NewIsEvenAiGemini(apiKey, model, temperature, clientFails) ==
    IF apiKey = ""
    THEN [ai |-> NoInstance, err |-> <<"Gemini API key is required">>]
    ELSE IF clientFails
    THEN [ai |-> NoInstance,
          err |-> Errorf(<<"failed to create Gemini client">>, <<"client error">>)]
    ELSE [ai |-> [apiKey |-> apiKey,
                  modelName |-> IF model # "" THEN model ELSE DefaultModel,
                  temperature |-> IF temperature # NilTemperature
                                  THEN temperature ELSE DefaultTemperature,
                  closed |-> 0],
          err |-> NilErr]

\* IsEvenAiGemini.Close on instance i: closed counts the calls
Close(insts, i) == [insts EXCEPT ![i].closed = @ + 1]

\* the IsEvenAiCore embedded in an IsEvenAiGemini whose backend answers resp
GeminiCore(resp) ==
    [promptTemplates |-> DefaultGeminiPromptTemplates, query |-> GeminiQuery(resp)]

\* the IsEvenAiCore embedded in an IsEvenAiOpenAi whose backend answers resp
OpenAiCore(resp) ==
    [promptTemplates |-> DefaultOpenAiPromptTemplates, query |-> OpenAiQuery(resp)]

NoRet == [fn |-> "none", res |-> Undefined, err |-> NilErr, prompts |-> << >>, trace |-> << >>]

NoLocal ==
    [fn |-> "none", args |-> << >>, apiKey |-> "", model |-> "",
     temperature |-> NilTemperature, client |-> 0]

NotInitializedErr ==
    <<"gemini API key not set or instance not initialized. Call SetAPIKey() first">>

EmptyKeyErr == <<"API key cannot be empty">>

\* SetAPIKey(apiKey, modelOpts...), up to globalMu.Lock() returning; no
\* modelOpts is the zero GeminiModelOptions
SetAPIKeyWith(t, apiKey, model, temperature) ==
    /\ pc[t] = "idle"
    /\ globalMu = 0
    /\ local' = [local EXCEPT ![t] =
                    [fn |-> "SetAPIKey", args |-> << >>, apiKey |-> apiKey,
                     model |-> model, temperature |-> temperature, client |-> 0]]
    /\ globalMu' = t
    /\ pc' = [pc EXCEPT ![t] = "SetAPIKey"]
    /\ ret' = [ret EXCEPT ![t] = NoRet]
    /\ UNCHANGED <<globalGeminiInstance, apiKeyIsSet, instances, lastSetAPIKey>>
    /\ UNCHANGED coreVars
    /\ UNCHANGED backendVars

SetAPIKey(t) ==
    \E apiKey \in APIKeys, model \in Models, temperature \in Temperatures :
        SetAPIKeyWith(t, apiKey, model, temperature)

\* SetAPIKey called without model options by one of two goroutines
ConcSetAPIKey(t) ==
    \E apiKey \in {"", "key-1"} : SetAPIKeyWith(t, apiKey, "", NilTemperature)

\* what SetAPIKey returns
SetRet(err) ==
    [fn |-> "SetAPIKey", res |-> Undefined, err |-> err, prompts |-> << >>, trace |-> << >>]

\* the instances after the held one, if any, is closed
CloseHeld ==
    IF globalGeminiInstance # 0 THEN Close(instances, globalGeminiInstance) ELSE instances

\* SetAPIKey whose empty-key branch leaves the instance reference in place
SetAPIKeyBody_keepsInstance(t) ==
    /\ pc[t] = "SetAPIKey"
    /\ globalMu = t
    /\ IF local[t].apiKey = ""
       THEN /\ apiKeyIsSet' = FALSE
            /\ instances' = CloseHeld
            /\ globalGeminiInstance' = globalGeminiInstance
            /\ ret' = [ret EXCEPT ![t] = SetRet(EmptyKeyErr)]
            /\ lastSetAPIKey' = "empty"
       ELSE \E clientFails \in BOOLEAN :
            LET new == NewIsEvenAiGemini(local[t].apiKey, local[t].model,
                                         local[t].temperature, clientFails)
            IN  IF new.err # NilErr
                THEN /\ apiKeyIsSet' = FALSE
                     /\ instances' = CloseHeld
                     /\ globalGeminiInstance' = 0
                     /\ ret' = [ret EXCEPT ![t] =
                                  SetRet(Errorf(<<"failed to initialize global IsEvenAiGemini instance">>,
                                                new.err))]
                     /\ lastSetAPIKey' = "failed"
                ELSE /\ Len(instances) < MaxInstances
                     /\ instances' = Append(CloseHeld, new.ai)
                     /\ globalGeminiInstance' = Len(instances) + 1
                     /\ apiKeyIsSet' = TRUE
                     /\ ret' = [ret EXCEPT ![t] = SetRet(NilErr)]
                     /\ lastSetAPIKey' = "ok"
    /\ globalMu' = 0
    /\ pc' = [pc EXCEPT ![t] = "idle"]
    /\ local' = [local EXCEPT ![t] = NoLocal]
    /\ UNCHANGED coreVars
    /\ UNCHANGED backendVars

\* SetAPIKey that keeps the held instance when the construction fails
SetAPIKeyBody_keepsOnFailure(t) ==
    /\ pc[t] = "SetAPIKey"
    /\ globalMu = t
    /\ IF local[t].apiKey = ""
       THEN /\ apiKeyIsSet' = FALSE
            /\ instances' = CloseHeld
            /\ globalGeminiInstance' = 0
            /\ ret' = [ret EXCEPT ![t] = SetRet(EmptyKeyErr)]
            /\ lastSetAPIKey' = "empty"
       ELSE \E clientFails \in BOOLEAN :
            LET new == NewIsEvenAiGemini(local[t].apiKey, local[t].model,
                                         local[t].temperature, clientFails)
            IN  IF new.err # NilErr
                THEN /\ apiKeyIsSet' = apiKeyIsSet
                     /\ instances' = instances
                     /\ globalGeminiInstance' = globalGeminiInstance
                     /\ ret' = [ret EXCEPT ![t] =
                                  SetRet(Errorf(<<"failed to initialize global IsEvenAiGemini instance">>,
                                                new.err))]
                     /\ lastSetAPIKey' = "failed"
                ELSE /\ Len(instances) < MaxInstances
                     /\ instances' = Append(CloseHeld, new.ai)
                     /\ globalGeminiInstance' = Len(instances) + 1
                     /\ apiKeyIsSet' = TRUE
                     /\ ret' = [ret EXCEPT ![t] = SetRet(NilErr)]
                     /\ lastSetAPIKey' = "ok"
    /\ globalMu' = 0
    /\ pc' = [pc EXCEPT ![t] = "idle"]
    /\ local' = [local EXCEPT ![t] = NoLocal]
    /\ UNCHANGED coreVars
    /\ UNCHANGED backendVars

\* SetAPIKey that replaces the held instance without closing it
SetAPIKeyBody_leaksHeld(t) ==
    /\ pc[t] = "SetAPIKey"
    /\ globalMu = t
    /\ IF local[t].apiKey = ""
       THEN /\ apiKeyIsSet' = FALSE
            /\ instances' = CloseHeld
            /\ globalGeminiInstance' = 0
            /\ ret' = [ret EXCEPT ![t] = SetRet(EmptyKeyErr)]
            /\ lastSetAPIKey' = "empty"
       ELSE \E clientFails \in BOOLEAN :
            LET new == NewIsEvenAiGemini(local[t].apiKey, local[t].model,
                                         local[t].temperature, clientFails)
            IN  IF new.err # NilErr
                THEN /\ apiKeyIsSet' = FALSE
                     /\ instances' = CloseHeld
                     /\ globalGeminiInstance' = 0
                     /\ ret' = [ret EXCEPT ![t] =
                                  SetRet(Errorf(<<"failed to initialize global IsEvenAiGemini instance">>,
                                                new.err))]
                     /\ lastSetAPIKey' = "failed"
                ELSE /\ Len(instances) < MaxInstances
                     /\ instances' = Append(instances, new.ai)
                     /\ globalGeminiInstance' = Len(instances) + 1
                     /\ apiKeyIsSet' = TRUE
                     /\ ret' = [ret EXCEPT ![t] = SetRet(NilErr)]
                     /\ lastSetAPIKey' = "ok"
    /\ globalMu' = 0
    /\ pc' = [pc EXCEPT ![t] = "idle"]
    /\ local' = [local EXCEPT ![t] = NoLocal]
    /\ UNCHANGED coreVars
    /\ UNCHANGED backendVars

\* the body of SetAPIKey, run under the lock, and the deferred Unlock
SetAPIKeyBody(t) ==
    /\ pc[t] = "SetAPIKey"
    /\ globalMu = t
    /\ IF local[t].apiKey = ""
       THEN /\ apiKeyIsSet' = FALSE
            /\ instances' = CloseHeld
            /\ globalGeminiInstance' = 0
            /\ ret' = [ret EXCEPT ![t] = SetRet(EmptyKeyErr)]
            /\ lastSetAPIKey' = "empty"
       ELSE \E clientFails \in BOOLEAN :
            LET new == NewIsEvenAiGemini(local[t].apiKey, local[t].model,
                                         local[t].temperature, clientFails)
            IN  IF new.err # NilErr
                THEN /\ apiKeyIsSet' = FALSE
                     /\ instances' = CloseHeld
                     /\ globalGeminiInstance' = 0
                     /\ ret' = [ret EXCEPT ![t] =
                                  SetRet(Errorf(<<"failed to initialize global IsEvenAiGemini instance">>,
                                                new.err))]
                     /\ lastSetAPIKey' = "failed"
                ELSE /\ Len(instances) < MaxInstances
                     /\ instances' = Append(CloseHeld, new.ai)
                     /\ globalGeminiInstance' = Len(instances) + 1
                     /\ apiKeyIsSet' = TRUE
                     /\ ret' = [ret EXCEPT ![t] = SetRet(NilErr)]
                     /\ lastSetAPIKey' = "ok"
    /\ globalMu' = 0
    /\ pc' = [pc EXCEPT ![t] = "idle"]
    /\ local' = [local EXCEPT ![t] = NoLocal]
    /\ UNCHANGED coreVars
    /\ UNCHANGED backendVars

\* getGlobalGeminiInstance that hands out the reference without a check
getGlobalGeminiInstance_unchecked ==
    [client |-> globalGeminiInstance, err |-> NilErr]

\* getGlobalGeminiInstance(): (client, err), Lock and deferred Unlock included
getGlobalGeminiInstance ==
    IF ~apiKeyIsSet \/ globalGeminiInstance = 0
    THEN [client |-> 0, err |-> NotInitializedErr]
    ELSE [client |-> globalGeminiInstance, err |-> NilErr]

\* a free function that keeps the lock while the method of the client runs
Invoke_holdsLock(t, fn, args) ==
    /\ pc[t] = "idle"
    /\ globalMu = 0
    /\ LET g == getGlobalGeminiInstance
       IN  IF g.err # NilErr
           THEN /\ ret' = [ret EXCEPT ![t] =
                             [fn |-> fn, res |-> Undefined, err |-> g.err,
                              prompts |-> << >>, trace |-> << >>]]
                /\ UNCHANGED <<pc, local>>
           ELSE /\ pc' = [pc EXCEPT ![t] = "run"]
                /\ local' = [local EXCEPT ![t] =
                               [fn |-> fn, args |-> args, apiKey |-> "", model |-> "",
                                temperature |-> NilTemperature, client |-> g.client]]
                /\ ret' = [ret EXCEPT ![t] = NoRet]
    /\ globalMu' = IF getGlobalGeminiInstance.err # NilErr THEN 0 ELSE t
    /\ UNCHANGED <<globalGeminiInstance, apiKeyIsSet, instances, lastSetAPIKey>>
    /\ UNCHANGED coreVars
    /\ UNCHANGED backendVars

\* a free function up to the return of getGlobalGeminiInstance: it returns
\* the error, or goes on to call the method of the client it got
Invoke(t, fn, args) ==
    /\ pc[t] = "idle"
    /\ globalMu = 0
    /\ LET g == getGlobalGeminiInstance
       IN  IF g.err # NilErr
           THEN /\ ret' = [ret EXCEPT ![t] =
                             [fn |-> fn, res |-> Undefined, err |-> g.err,
                              prompts |-> << >>, trace |-> << >>]]
                /\ UNCHANGED <<pc, local>>
           ELSE /\ pc' = [pc EXCEPT ![t] = "run"]
                /\ local' = [local EXCEPT ![t] =
                               [fn |-> fn, args |-> args, apiKey |-> "", model |-> "",
                                temperature |-> NilTemperature, client |-> g.client]]
                /\ ret' = [ret EXCEPT ![t] = NoRet]
    /\ UNCHANGED <<globalGeminiInstance, apiKeyIsSet, globalMu, instances, lastSetAPIKey>>
    /\ UNCHANGED coreVars
    /\ UNCHANGED backendVars

\* the integers the free functions are called with
GlobalInts == {0, MaxInt}

GlobalIsEven(t) == \E n \in GlobalInts : Invoke(t, "IsEven", <<n>>)

GlobalIsOdd(t) == \E n \in GlobalInts : Invoke(t, "IsOdd", <<n>>)

GlobalAreEqual(t) == \E a \in GlobalInts, b \in GlobalInts : Invoke(t, "AreEqual", <<a, b>>)

GlobalAreNotEqual(t) == \E a \in GlobalInts, b \in GlobalInts : Invoke(t, "AreNotEqual", <<a, b>>)

GlobalIsGreaterThan(t) == \E a \in GlobalInts, b \in GlobalInts : Invoke(t, "IsGreaterThan", <<a, b>>)

GlobalIsLessThan(t) == \E a \in GlobalInts, b \in GlobalInts : Invoke(t, "IsLessThan", <<a, b>>)

\* a dispatch that hands IsLessThan its arguments in the other order
ClientMethod_swapped(fn, c, args) ==
    CASE fn = "IsEven" -> IsEven(c, args[1])
      [] fn = "IsOdd" -> IsOdd(c, args[1])
      [] fn = "AreEqual" -> AreEqual(c, args[1], args[2])
      [] fn = "AreNotEqual" -> AreNotEqual(c, args[1], args[2])
      [] fn = "IsGreaterThan" -> IsGreaterThan(c, args[1], args[2])
      [] fn = "IsLessThan" -> IsLessThan(c, args[2], args[1])

\* client.<fn>(args...): the method of the embedded core the free function fn calls
ClientMethod(fn, c, args) ==
    CASE fn = "IsEven" -> IsEven(c, args[1])
      [] fn = "IsOdd" -> IsOdd(c, args[1])
      [] fn = "AreEqual" -> AreEqual(c, args[1], args[2])
      [] fn = "AreNotEqual" -> AreNotEqual(c, args[1], args[2])
      [] fn = "IsGreaterThan" -> IsGreaterThan(c, args[1], args[2])
      [] fn = "IsLessThan" -> IsLessThan(c, args[1], args[2])

\* the rest of a free function: the client's method runs, outside the lock,
\* the backend answers, and the free function returns what the method returns
ClientReturn(t) ==
    /\ pc[t] = "run"
    /\ \E resp \in Responses :
        LET r == ClientMethod(local[t].fn, GeminiCore(resp), local[t].args)
        IN  ret' = [ret EXCEPT ![t] = [fn |-> local[t].fn] @@ r]
    /\ pc' = [pc EXCEPT ![t] = "idle"]
    /\ local' = [local EXCEPT ![t] = NoLocal]
    /\ UNCHANGED <<globalGeminiInstance, apiKeyIsSet, globalMu, instances, lastSetAPIKey>>
    /\ UNCHANGED coreVars
    /\ UNCHANGED backendVars

-----------------------------------------------------------------------------
(* The backends called on their own, as their tests call them *)

NoMade == [called |-> FALSE]

NoAnswer == [backend |-> "none"]

\* NewIsEvenAiGemini(GeminiClientOptions{APIKey: apiKey}, opts) called directly
CallNewIsEvenAiGemini ==
    /\ \E apiKey \in APIKeys, model \in Models, temperature \in Temperatures,
          clientFails \in BOOLEAN :
        made' = [called |-> TRUE, apiKey |-> apiKey, model |-> model,
                 temperature |-> temperature,
                 ret |-> NewIsEvenAiGemini(apiKey, model, temperature, clientFails)]
    /\ UNCHANGED answer
    /\ UNCHANGED coreVars
    /\ UNCHANGED globalVars

\* one call of the Gemini queryFunc, the backend answering resp
CallGeminiQueryFunc ==
    /\ \E resp \in GeminiAnswers :
        answer' = [backend |-> "gemini", resp |-> resp,
                   ret |-> queryFunc(resp, geminiPromptTemplates("isEven", <<0>>))]
    /\ UNCHANGED made
    /\ UNCHANGED coreVars
    /\ UNCHANGED globalVars

\* one call of the OpenAI queryFunc, the backend answering resp
CallOpenAiQueryFunc ==
    /\ \E resp \in OpenAiAnswers :
        answer' = [backend |-> "openai", resp |-> resp,
                   ret |-> openAiQueryFunc(resp, geminiPromptTemplates("isEven", <<0>>))]
    /\ UNCHANGED made
    /\ UNCHANGED coreVars
    /\ UNCHANGED globalVars

-----------------------------------------------------------------------------
(* Specifications *)

\* the global state at process start, with the threads given
GlobalInit(threads) ==
    /\ globalGeminiInstance = 0
    /\ apiKeyIsSet = FALSE
    /\ globalMu = 0
    /\ instances = << >>
    /\ pc = [t \in threads |-> "idle"]
    /\ local = [t \in threads |-> NoLocal]
    /\ ret = [t \in threads |-> NoRet]
    /\ lastSetAPIKey = "none"

CoreInit ==
    /\ newArgs = NoArgs
    /\ core = NoCore
    /\ panicked = FALSE
    /\ call = NoCall

BackendInit ==
    /\ made = NoMade
    /\ answer = NoAnswer

\* the query core under its tests; the global instance is not touched
Init == CoreInit /\ GlobalInit({1}) /\ BackendInit

Next ==
    \/ NewIsEvenAiCore
    \/ reset
    \/ CallIsEven
    \/ CallIsOdd
    \/ CallAreEqual
    \/ CallAreNotEqual
    \/ CallIsGreaterThan
    \/ CallIsLessThan

Spec == Init /\ [][Next]_vars

\* the query core with a truthful QueryFunc
TruthNext ==
    \/ NewTruthfulCore
    \/ reset
    \/ CallIsEven
    \/ CallIsOdd
    \/ CallAreEqual
    \/ CallAreNotEqual
    \/ CallIsGreaterThan
    \/ CallIsLessThan

TruthSpec == Init /\ [][TruthNext]_vars

\* getPrompt under its test
PromptNext ==
    \/ NewIsEvenAiCore
    \/ reset
    \/ CallGetPrompt

PromptSpec == Init /\ [][PromptNext]_vars

\* the global single instance used by one thread
GlobalNext ==
    \/ \E t \in DOMAIN pc : SetAPIKey(t)
    \/ \E t \in DOMAIN pc : SetAPIKeyBody(t)
    \/ \E t \in DOMAIN pc : GlobalIsEven(t)
    \/ \E t \in DOMAIN pc : GlobalIsOdd(t)
    \/ \E t \in DOMAIN pc : GlobalAreEqual(t)
    \/ \E t \in DOMAIN pc : GlobalAreNotEqual(t)
    \/ \E t \in DOMAIN pc : GlobalIsGreaterThan(t)
    \/ \E t \in DOMAIN pc : GlobalIsLessThan(t)
    \/ \E t \in DOMAIN pc : ClientReturn(t)

GlobalSpec == Init /\ [][GlobalNext]_vars

\* the global single instance used by two threads at once
ConcInit == CoreInit /\ GlobalInit({1, 2}) /\ BackendInit

ConcNext ==
    \/ \E t \in DOMAIN pc : ConcSetAPIKey(t)
    \/ \E t \in DOMAIN pc : SetAPIKeyBody(t)
    \/ \E t \in DOMAIN pc : GlobalIsEven(t)
    \/ \E t \in DOMAIN pc : ClientReturn(t)

ConcSpec == ConcInit /\ [][ConcNext]_vars

\* the constructor and the queryFuncs of the backends called on their own
BackendNext ==
    \/ CallNewIsEvenAiGemini
    \/ CallGeminiQueryFunc
    \/ CallOpenAiQueryFunc

BackendSpec == Init /\ [][BackendNext]_vars

-----------------------------------------------------------------------------
(* Properties of the query core, checked under Spec *)

MandatoryOps == {"IsEven", "AreEqual", "IsGreaterThan"}

OptionalOps == {"IsOdd", "AreNotEqual", "IsLessThan"}

\* the template slot an operation reads
PromptNameOf(op) ==
    CASE op = "IsEven" -> "isEven"
      [] op = "IsOdd" -> "isOdd"
      [] op = "AreEqual" -> "areEqual"
      [] op = "AreNotEqual" -> "areNotEqual"
      [] op = "IsGreaterThan" -> "isGreaterThan"
      [] op = "IsLessThan" -> "isLessThan"

\* the complement of an optional operation and the arguments it is asked with
ComplementOf(op) ==
    CASE op = "IsOdd" -> "IsEven"
      [] op = "AreNotEqual" -> "AreEqual"
      [] op = "IsLessThan" -> "IsGreaterThan"

ComplementArgs(op, args) == IF op = "IsLessThan" THEN <<args[2], args[1]>> ELSE args

OwnTemplate == Slot(core.promptTemplates, PromptNameOf(call.op))

ComplementTemplate == Slot(core.promptTemplates, PromptNameOf(ComplementOf(call.op)))

\* the string a template returns for the arguments of the call
OwnPrompt == CallTemplate(OwnTemplate, PromptNameOf(call.op), call.args)

ComplementPrompt ==
    CallTemplate(ComplementTemplate, PromptNameOf(ComplementOf(call.op)),
                 ComplementArgs(call.op, call.args))

\* an optional operation was called with its template absent and the
\* template of its complement present
OnFallback ==
    /\ call.op \in OptionalOps
    /\ OwnTemplate = NilTemplate
    /\ ComplementTemplate # NilTemplate

\* C1: a mandatory operation whose template is present calls the QueryFunc
\* once, with exactly the string the template returns for the arguments in
\* the order given, and returns the QueryFunc's result (true, false or
\* undefined) unchanged with a nil error when the QueryFunc's error is nil.
C1_MandatoryDirect ==
    (/\ call.op \in MandatoryOps
     /\ OwnTemplate # NilTemplate
     /\ core.query.returnError = NilErr)
    => /\ call.ret.prompts = <<OwnPrompt>>
       /\ call.ret.res = core.query.returnValue
       /\ call.ret.err = NilErr

C1_Witness ==
    /\ call.op = "IsGreaterThan"
    /\ call.args = <<1, -1>>
    /\ core.promptTemplates.IsGreaterThan = "test"
    /\ core.query.returnValue = Undefined
    /\ core.query.returnError = NilErr
    /\ call.ret.prompts = << <<"isGreaterThan ", "1", " ", "-", "1">> >>
    /\ call.ret.res = Undefined

\* C2: an optional operation whose template is absent calls the QueryFunc
\* with the prompt of its complement and with nothing else: isEven's prompt
\* for n in IsOdd(n), areEqual's for (a,b) in AreNotEqual(a,b), and
\* isGreaterThan's for the swapped pair (b,a) in IsLessThan(a,b).
C2_FallbackPrompt ==
    OnFallback => call.ret.prompts = <<ComplementPrompt>>

C2_Witness ==
    /\ OnFallback
    /\ call.op = "IsLessThan"
    /\ call.args = <<1, -1>>
    /\ call.ret.prompts = << <<"isGreaterThan ", "-", "1", " ", "1">> >>

\* C3: fallback negation law: on the fallback path a complement answered
\* true gives (false, nil) and a complement answered false gives (true, nil).
C3_FallbackNegation ==
    (OnFallback /\ core.query.returnError = NilErr)
    => /\ core.query.returnValue = True
          => (call.ret.res = False /\ call.ret.err = NilErr)
       /\ core.query.returnValue = False
          => (call.ret.res = True /\ call.ret.err = NilErr)

C3_Witness ==
    /\ OnFallback
    /\ call.op = "AreNotEqual"
    /\ core.query.returnError = NilErr
    /\ core.query.returnValue = False
    /\ call.ret.res = True

\* C4: fallback transparency law: on the fallback path a complement answered
\* (undefined, nil) gives (undefined, nil), never a definite true or false.
C4_FallbackUndefined ==
    (/\ OnFallback
     /\ core.query.returnError = NilErr
     /\ core.query.returnValue = Undefined)
    => (call.ret.res = Undefined /\ call.ret.err = NilErr)

C4_Witness ==
    /\ OnFallback
    /\ call.op = "IsOdd"
    /\ core.query.returnError = NilErr
    /\ core.query.returnValue = Undefined
    /\ call.ret.res = Undefined
    /\ call.ret.prompts # << >>

\* the QueryFunc was called and returned a non-nil error
QueryFailed == call.ret.prompts # << >> /\ core.query.returnError # NilErr

C6_MissingMandatory ==
    (call.op \in MandatoryOps /\ OwnTemplate = NilTemplate)
    => /\ call.ret.res = Undefined
       /\ Contains(call.ret.err, <<"mandatory and not defined">>)
       /\ call.ret.prompts = << >>

C6_Witness ==
    /\ call.op = "AreEqual"
    /\ core.promptTemplates.AreEqual = NilTemplate
    /\ core.promptTemplates.IsEven # NilTemplate
    /\ call.ret.err = <<"failed to get prompt for ", "AreEqual", ": ", "areEqual",
                        " prompt template is ", "mandatory and not defined">>

\* C7 as stated: an optional operation whose own template is present, for
\* every template function, calls the QueryFunc with that template's output,
\* never calls its complement, and returns the QueryFunc's (result, error)
\* pair verbatim.
C7_OptionalDirect ==
    (call.op \in OptionalOps /\ OwnTemplate # NilTemplate)
    => /\ call.ret.prompts = <<OwnPrompt>>
       /\ call.ret.trace = <<call.op>>
       /\ call.ret.res = core.query.returnValue
       /\ call.ret.err = core.query.returnError

\* C8: NewIsEvenAiCore with the nil QueryFunc panics, for every template
\* set: it yields no core (and so returns no error either).
C8_NilQueryPanics ==
    (newArgs # NoArgs /\ newArgs.query = NilQuery) => (panicked /\ core = NoCore)

C8_Witness ==
    /\ newArgs # NoArgs
    /\ newArgs.query = NilQuery
    /\ newArgs.templates.IsEven = "test"
    /\ newArgs.templates.IsOdd = NilTemplate
    /\ panicked

\* the operation called went on to its complement
FallbackTaken == Len(call.ret.trace) = 2

\* the template of the operation that asks the QueryFunc is there: that of
\* the complement when the call went on to it, that of the operation
\* called otherwise
TemplateResolved ==
    IF FallbackTaken THEN ComplementTemplate # NilTemplate ELSE OwnTemplate # NilTemplate

\* C17: a call of one of the six operations calls the QueryFunc at most
\* once, and exactly once when the template of the operation, or that of
\* its complement when the call goes on to it, is there: whether the
\* QueryFunc returns a value, undefined or an error, and whatever was
\* called before (the core keeps nothing from one call to the next).
C17_OneQueryPerCall ==
    call # NoCall
    => /\ Len(call.ret.prompts) <= 1
       /\ Len(call.ret.prompts) = 1 <=> TemplateResolved
       /\ Len(call.ret.trace) <= 2

C17_Witness ==
    /\ call.op = "AreNotEqual"
    /\ FallbackTaken
    /\ TemplateResolved
    /\ core.query.returnError = queryError
    /\ Len(call.ret.prompts) = 1
    /\ call.ret.err # NilErr

\* getPrompt was called for one of the six names with fewer arguments than
\* the template of that name takes
TooFewArguments ==
    /\ call.op = "getPrompt"
    /\ call.name \in PromptNames
    /\ Len(call.args) < Arity(call.name)

\* C21, as claimed: getPrompt for each of the six names with fewer
\* arguments than the arity returns the "not enough arguments" error.
C21_NotEnoughArguments ==
    TooFewArguments
    => call.ret.err = <<"not enough arguments", " for ", call.name, " prompt">>

\* C21, amended: getPrompt with fewer arguments than the arity returns no
\* prompt and the "not enough arguments" error, which is neither nil nor the
\* "mandatory and not defined" error, when the template of that name is
\* there; when it is not, the outcome is that of the missing template: the
\* "mandatory and not defined" error for a mandatory name, no prompt and no
\* error for an optional one.
C21_NotEnoughWhenDefined ==
    TooFewArguments
    => /\ call.ret.prompt = << >>
       /\ IF Slot(core.promptTemplates, call.name) # NilTemplate
          THEN /\ call.ret.err = <<"not enough arguments", " for ", call.name, " prompt">>
               /\ call.ret.err # NilErr
               /\ ~Contains(call.ret.err, <<"mandatory and not defined">>)
          ELSE IF call.name \in {"isEven", "areEqual", "isGreaterThan"}
          THEN /\ Contains(call.ret.err, <<"mandatory and not defined">>)
               /\ ~Contains(call.ret.err, <<"not enough arguments">>)
          ELSE call.ret.err = NilErr

C21_Witness ==
    /\ call.op = "getPrompt"
    /\ call.name = "isLessThan"
    /\ Len(call.args) = 1
    /\ core.promptTemplates.IsLessThan = "test"
    /\ call.ret.err = <<"not enough arguments", " for ", "isLessThan", " prompt">>

\* what getPrompt returns for the name and the arguments of the operation called
OwnResolution == getPrompt(core, PromptNameOf(call.op), call.args)

FallbackRelation(op) ==
    CASE op = "IsOdd" -> "IsEven"
      [] op = "AreNotEqual" -> "AreEqual"
      [] op = "IsLessThan" -> "IsGreaterThan(b,a)"

\* the error the complement of the operation called returns: that of its
\* missing template, or else that of the QueryFunc, or else none
ComplementError ==
    IF ComplementTemplate = NilTemplate
    THEN <<"failed to get prompt for ", ComplementOf(call.op), ": ",
           PromptNameOf(ComplementOf(call.op)), " prompt template is ",
           "mandatory and not defined">>
    ELSE core.query.returnError

\* C23: an optional operation that went on to its complement, the
\* complement returning an error (its template is missing, or the QueryFunc
\* returned an error), returns an undefined result, whatever value came
\* with the error, and the error "failed to determine <operation> by
\* inverting <complement>" wrapping the complement's error.
C23_FallbackErrorWrapped ==
    (call.op \in OptionalOps /\ FallbackTaken /\ ComplementError # NilErr)
    => /\ call.ret.res = Undefined
       /\ call.ret.err =
            <<"failed to determine ", call.op, " by inverting ",
              FallbackRelation(call.op), ": ">> \o ComplementError
       /\ call.ret.prompts =
            IF ComplementTemplate = NilTemplate THEN << >> ELSE <<ComplementPrompt>>

C23_Witness ==
    /\ call.op = "IsLessThan"
    /\ call.args = <<0, 1>>
    /\ FallbackTaken
    /\ core.query.returnValue = True
    /\ core.query.returnError = queryError
    /\ call.ret.res = Undefined
    /\ call.ret.err = <<"failed to determine ", "IsLessThan", " by inverting ",
                        "IsGreaterThan(b,a)", ": ", "AI query failed">>

\* C28, as claimed: whenever the error an operation returns is not nil,
\* the result it returns is undefined.
C28_NeverBoth ==
    call.op \in MandatoryOps \cup OptionalOps
    => (call.ret.err # NilErr => call.ret.res = Undefined)

\* C28, amended: an operation returns a value along with an error only when
\* it asked the QueryFunc itself and the QueryFunc returned that value along
\* with that error; an operation that went on to its complement, or that
\* did not reach the QueryFunc, returns an undefined result with every error.
C28_BothOnlyFromQuery ==
    (/\ call.op \in MandatoryOps \cup OptionalOps
     /\ call.ret.err # NilErr
     /\ call.ret.res # Undefined)
    => /\ call.ret.trace = <<call.op>>
       /\ Len(call.ret.prompts) = 1
       /\ call.ret.res = core.query.returnValue
       /\ call.ret.err = core.query.returnError

\* the QueryFunc returned false along with an error: the operation that
\* went on to its complement returns undefined with the error
C28_Witness ==
    /\ call.op = "IsOdd"
    /\ FallbackTaken
    /\ core.query.returnValue = False
    /\ core.query.returnError = queryError
    /\ Len(call.ret.prompts) = 1
    /\ call.ret.res = Undefined
    /\ call.ret.err # NilErr

\* C29: every call of an operation returns, after the operation itself or
\* after the operation and one other: an optional operation goes on to at
\* most one operation, its complement, which is a mandatory one, and a
\* mandatory operation goes on to none.
C29_DepthAtMostTwo ==
    call.op \in MandatoryOps \cup OptionalOps
    => /\ Len(call.ret.trace) \in {1, 2}
       /\ call.ret.trace[1] = call.op
       /\ call.op \in MandatoryOps => call.ret.trace = <<call.op>>
       /\ Len(call.ret.trace) = 2
          => /\ call.op \in OptionalOps
             /\ call.ret.trace[2] = ComplementOf(call.op)
             /\ call.ret.trace[2] \in MandatoryOps
       /\ call.ret.res \in Bools

C29_Witness ==
    /\ call.op = "IsLessThan"
    /\ core.promptTemplates.IsLessThan = NilTemplate
    /\ core.promptTemplates.IsGreaterThan = NilTemplate
    /\ core.promptTemplates.AreNotEqual = NilTemplate
    /\ call.ret.trace = <<"IsLessThan", "IsGreaterThan">>
    /\ call.ret.err # NilErr

-----------------------------------------------------------------------------
(* Properties of the query core with a truthful QueryFunc, checked under   *)
(* TruthSpec                                                               *)

\* the QueryFunc is truthful and the complement's template asks its question
TruthfulFallback ==
    /\ call.op \in OptionalOps
    /\ core.query.kind = "truthful"
    /\ OwnTemplate = NilTemplate
    /\ ComplementTemplate = "test"

\* C24: with the isLessThan template absent and a truthful QueryFunc,
\* IsLessThan(a, b) returns true exactly when a < b and false otherwise, for
\* all pairs (a, b), a = b included.
C24_LessThanTruthful ==
    (TruthfulFallback /\ call.op = "IsLessThan")
    => /\ call.ret.err = NilErr
       /\ call.ret.res = IF call.args[1] < call.args[2] THEN True ELSE False

\* C25: with the isOdd and areNotEqual templates absent and a truthful
\* QueryFunc, IsOdd(n) returns true exactly when n is odd and AreNotEqual(a,
\* b) returns true exactly when a differs from b, and false otherwise, for
\* all integers, zero and the negative ones included.
C25_OddNotEqualTruthful ==
    /\ (TruthfulFallback /\ call.op = "IsOdd")
       => /\ call.ret.err = NilErr
          /\ call.ret.res =
               IF call.args[1] \in {2 * k + 1 : k \in (0 - MaxInt - 1)..MaxInt}
               THEN True ELSE False
    /\ (TruthfulFallback /\ call.op = "AreNotEqual")
       => /\ call.ret.err = NilErr
          /\ call.ret.res = IF call.args[1] # call.args[2] THEN True ELSE False

C25_Witness ==
    /\ TruthfulFallback
    /\ call.op = "IsOdd"
    /\ call.args = <<-1>>
    /\ call.ret.res = True
    /\ call.ret.prompts = << <<"isEven ", "-", "1">> >>

-----------------------------------------------------------------------------
(* Properties of the global single instance, checked under GlobalSpec *)

FreeFunctions == {"IsEven", "IsOdd", "AreEqual", "AreNotEqual", "IsGreaterThan", "IsLessThan"}

\* the state Unconfigured of the global single instance
Unconfigured == ~apiKeyIsSet \/ globalGeminiInstance = 0

\* thread t calls a free function in this step
CallsFreeFunction(t) ==
    /\ pc[t] = "idle"
    /\ \/ pc'[t] = "run"
       \/ ret'[t] # ret[t] /\ ret'[t].fn \in FreeFunctions

ReturnsFromEmptyKey(t) ==
    pc[t] = "SetAPIKey" /\ local[t].apiKey = "" /\ pc'[t] = "idle"

\* C10: SetAPIKey with the empty key, from Unconfigured and from Configured,
\* returns the error "API key cannot be empty", closes the held instance if
\* there is one, constructs no instance, and leaves the flag false and the
\* instance reference nil.
C10_EmptyKeyClears ==
    [][\A t \in DOMAIN pc :
        ReturnsFromEmptyKey(t)
        => /\ ret'[t].fn = "SetAPIKey"
           /\ ret'[t].err = <<"API key cannot be empty">>
           /\ apiKeyIsSet' = FALSE
           /\ globalGeminiInstance' = 0
           /\ Len(instances') = Len(instances)
           /\ \A i \in 1..Len(instances) :
                instances'[i] =
                    IF i = globalGeminiInstance
                    THEN [instances[i] EXCEPT !.closed = instances[i].closed + 1]
                    ELSE instances[i]]_vars

C10_Witness ==
    /\ ret[1].fn = "SetAPIKey"
    /\ ret[1].err = <<"API key cannot be empty">>
    /\ ~apiKeyIsSet
    /\ globalGeminiInstance = 0
    /\ Len(instances) = 1
    /\ instances[1].closed = 1

\* thread t returns from SetAPIKey with a non-empty key in this step, no
\* instance having been constructed
ReturnsFromFailedConstruction(t) ==
    /\ pc[t] = "SetAPIKey"
    /\ local[t].apiKey # ""
    /\ pc'[t] = "idle"
    /\ Len(instances') = Len(instances)

\* the instances after the step are those before it, the held one closed once more
HeldInstanceClosed ==
    \A i \in 1..Len(instances) :
        instances'[i] =
            IF i = globalGeminiInstance
            THEN [instances[i] EXCEPT !.closed = instances[i].closed + 1]
            ELSE instances[i]

\* C11: SetAPIKey with a non-empty key whose backend construction fails
\* returns the construction error wrapped in "failed to initialize global
\* IsEvenAiGemini instance", closes the held instance if there is one, and
\* leaves the flag false and the instance reference nil.
C11_FailedConstructionClears ==
    [][\A t \in DOMAIN pc :
        ReturnsFromFailedConstruction(t)
        => /\ ret'[t].fn = "SetAPIKey"
           /\ ret'[t].err =
                <<"failed to initialize global IsEvenAiGemini instance", ": ",
                  "failed to create Gemini client", ": ", "client error">>
           /\ apiKeyIsSet' = FALSE
           /\ globalGeminiInstance' = 0
           /\ HeldInstanceClosed]_vars

C11_Witness ==
    /\ ret[1].fn = "SetAPIKey"
    /\ Contains(ret[1].err, <<"failed to initialize global IsEvenAiGemini instance">>)
    /\ lastSetAPIKey = "failed"
    /\ ~apiKeyIsSet
    /\ globalGeminiInstance = 0
    /\ Len(instances) = 1
    /\ instances[1].closed = 1

\* thread t returns from a SetAPIKey that constructed an instance in this step
ReturnsFromConstruction(t) ==
    /\ pc[t] = "SetAPIKey"
    /\ pc'[t] = "idle"
    /\ Len(instances') = Len(instances) + 1

\* thread t goes on to the method of the client it got in this step
CapturesInstance(t) == pc[t] = "idle" /\ pc'[t] = "run"

\* C12: a SetAPIKey that constructs an instance returns nil, closes the
\* instance held before, if any, and leaves the flag true and the reference
\* on the new instance, which has the key given and the model and the
\* temperature given (the defaults where none is given) and is open; and
\* every call of a free function that goes on to a client goes on to the
\* instance constructed last, which is open.
C12_SuccessAdopts ==
    [][\A t \in DOMAIN pc :
        /\ ReturnsFromConstruction(t)
           => /\ ret'[t].fn = "SetAPIKey"
              /\ ret'[t].err = NilErr
              /\ apiKeyIsSet' = TRUE
              /\ globalGeminiInstance' = Len(instances')
              /\ instances'[Len(instances')] =
                    [apiKey |-> local[t].apiKey,
                     modelName |-> IF local[t].model = ""
                                   THEN "gemini-2.0-flash-lite" ELSE local[t].model,
                     temperature |-> IF local[t].temperature = NilTemperature
                                     THEN "0.0" ELSE local[t].temperature,
                     closed |-> 0]
              /\ local[t].apiKey # ""
              /\ HeldInstanceClosed
        /\ CapturesInstance(t)
           => /\ local'[t].client = Len(instances)
              /\ local'[t].client # 0
              /\ instances[local'[t].client].closed = 0]_vars

C12_Witness ==
    /\ pc[1] = "run"
    /\ local[1].client = 2
    /\ Len(instances) = 2
    /\ instances[1] = [apiKey |-> "key-1", modelName |-> "gemini-2.0-flash-lite",
                       temperature |-> "0.0", closed |-> 1]
    /\ instances[2] = [apiKey |-> "key-2", modelName |-> "gemini-pro",
                       temperature |-> "0.7", closed |-> 0]

\* the state Configured of the global single instance
Configured == apiKeyIsSet /\ globalGeminiInstance # 0

\* the operation of a core that has the name of the free function fn
SameNamedOperation(fn, c, args) ==
    CASE fn = "IsEven" -> IsEven(c, args[1])
      [] fn = "IsOdd" -> IsOdd(c, args[1])
      [] fn = "AreEqual" -> AreEqual(c, args[1], args[2])
      [] fn = "AreNotEqual" -> AreNotEqual(c, args[1], args[2])
      [] fn = "IsGreaterThan" -> IsGreaterThan(c, args[1], args[2])
      [] fn = "IsLessThan" -> IsLessThan(c, args[1], args[2])

\* thread t returns from the method of its client in this step
ReturnsFromClient(t) == pc[t] = "run" /\ pc'[t] = "idle"

\* C13: while the global instance is Configured, a call of a free function
\* goes on to the held instance, and what it returns is what the operation
\* of that name of the instance's core returns for the same arguments in
\* the same order, for an answer of the backend: result, error and the
\* prompt sent.
C13_Delegates ==
    [][\A t \in DOMAIN pc :
        /\ (Configured /\ CallsFreeFunction(t))
           => /\ pc'[t] = "run"
              /\ local'[t].client = globalGeminiInstance
              /\ local'[t].fn \in FreeFunctions
        /\ ReturnsFromClient(t)
           => \E resp \in Responses :
                LET r == SameNamedOperation(local[t].fn, GeminiCore(resp), local[t].args)
                IN  /\ ret'[t].fn = local[t].fn
                    /\ ret'[t].res = r.res
                    /\ ret'[t].err = r.err
                    /\ ret'[t].prompts = r.prompts
                    /\ ret'[t].trace = r.trace]_vars

C13_Witness ==
    /\ Configured
    /\ pc[1] = "idle"
    /\ ret[1].fn = "IsLessThan"
    /\ ret[1].res = False
    /\ ret[1].err = NilErr
    /\ ret[1].trace = <<"IsLessThan">>
    /\ Len(ret[1].prompts) = 1
    /\ Contains(ret[1].prompts[1], <<"0", " less than ", "1">>)

\* thread t returns from SetAPIKey in this step
ReturnsFromSetAPIKey(t) == pc[t] = "SetAPIKey" /\ pc'[t] = "idle"

\* C14: over any sequence of SetAPIKey calls of one thread, a call of a free
\* function returns the "not set or not initialized" error exactly when no
\* SetAPIKey has completed yet or the most recent one had an empty key or
\* failed, and goes on to the core of the instance when the most recent one
\* succeeded; the most recent SetAPIKey is the one with the empty key, the
\* one that returned nil, or the one that returned another error.
C14_Lifecycle ==
    [][\A t \in DOMAIN pc :
        /\ CallsFreeFunction(t)
           => /\ (pc'[t] = "idle" /\ ret'[t].err = NotInitializedErr)
                    <=> lastSetAPIKey \in {"none", "empty", "failed"}
              /\ pc'[t] = "run" <=> lastSetAPIKey = "ok"
        /\ ReturnsFromClient(t)
           => lastSetAPIKey = "ok" /\ Len(ret'[t].prompts) = 1
        /\ ReturnsFromSetAPIKey(t)
           => lastSetAPIKey' =
                IF local[t].apiKey = "" THEN "empty"
                ELSE IF ret'[t].err = NilErr THEN "ok" ELSE "failed"]_vars

C14_Witness ==
    /\ lastSetAPIKey = "failed"
    /\ Len(instances) = 2
    /\ pc[1] = "idle"
    /\ ret[1].fn = "IsOdd"
    /\ ret[1].err = NotInitializedErr
    /\ ret[1].prompts = << >>

\* the argument lists the operation fn is called with
ArgsOf(fn) ==
    IF fn \in {"IsEven", "IsOdd"}
    THEN {<<n>> : n \in GlobalInts}
    ELSE {<<a, b>> : a \in GlobalInts, b \in GlobalInts}

\* every operation of an IsEvenAiOpenAi, whatever its backend answers,
\* runs alone and sends one prompt, that of its own default template
OpenAiOperationsDirect ==
    \A fn \in FreeFunctions : \A args \in ArgsOf(fn) : \A resp \in OpenAiAnswers :
        LET r == SameNamedOperation(fn, OpenAiCore(resp), args)
        IN  /\ r.trace = <<fn>>
            /\ r.prompts = <<openAiPromptTemplates(PromptNameOf(fn), args)>>
            /\ r.prompts[1] # << >>

\* C30: with the default templates of a backend no operation goes on to its
\* complement: every free function that reaches the Gemini instance, and
\* every operation of an OpenAI instance, runs that one operation alone and
\* sends exactly one prompt, the non-empty one of its own template; the
\* default templates are all there.
C30_DefaultsNeverFallBack ==
    /\ OpenAiOperationsDirect
    /\ \A name \in PromptNames :
        /\ Slot(DefaultOpenAiPromptTemplates, name) # NilTemplate
        /\ Slot(DefaultGeminiPromptTemplates, name) # NilTemplate
    /\ [][\A t \in DOMAIN pc :
            ReturnsFromClient(t)
            => /\ ret'[t].trace = <<local[t].fn>>
               /\ ret'[t].prompts =
                    <<geminiPromptTemplates(PromptNameOf(local[t].fn), local[t].args)>>
               /\ ret'[t].prompts[1] # << >>]_vars

C30_Witness ==
    /\ pc[1] = "idle"
    /\ ret[1].fn = "IsOdd"
    /\ ret[1].res = True
    /\ ret[1].trace = <<"IsOdd">>
    /\ ret[1].prompts = << <<"Is ", "1", " an odd number?">> >>

-----------------------------------------------------------------------------
(* Properties of the global single instance used by two threads, checked   *)
(* under ConcSpec                                                          *)

\* C15: a thread whose free function is in the method of its client, the
\* backend call included, does not hold the global lock; and while it is
\* there, another thread that is idle finds the lock free and can call
\* SetAPIKey or a free function, another thread in the body of SetAPIKey
\* can complete it, and another thread in the method of a client can return.
C15_LockOnlyAroundRead ==
    \A t \in DOMAIN pc :
        pc[t] = "run"
        => /\ globalMu # t
           /\ \A u \in DOMAIN pc \ {t} :
                /\ pc[u] = "idle"
                   => /\ globalMu = 0
                      /\ ENABLED ConcSetAPIKey(u)
                      /\ ENABLED GlobalIsEven(u)
                /\ pc[u] = "SetAPIKey" => (globalMu = u /\ ENABLED SetAPIKeyBody(u))
                /\ pc[u] = "run" => ENABLED ClientReturn(u)

\* thread 2 has completed a SetAPIKey while thread 1 was in the method of
\* the client it had captured before
C15_Witness ==
    /\ pc[1] = "run"
    /\ pc[2] = "idle"
    /\ ret[2].fn = "SetAPIKey"
    /\ ret[2].err = NilErr
    /\ local[1].client # globalGeminiInstance
    /\ globalMu = 0

\* C16: the instance a free function runs its operation on is not replaced
\* and not closed between the moment the function captured the reference
\* and the moment the operation returns.
C16_NoSwapDuringCall ==
    \A t \in DOMAIN pc :
        pc[t] = "run"
        => /\ globalGeminiInstance = local[t].client
           /\ instances[local[t].client].closed = 0

\* C26: in every state in which the global lock is free, whatever the
\* interleaving of the SetAPIKey calls and free-function calls of two
\* threads, the flag is true exactly when the instance reference is not nil.
C26_FlagIffInstance ==
    globalMu = 0 => (apiKeyIsSet <=> globalGeminiInstance # 0)

\* the lock is free, the flag is set and the reference is on the second
\* instance, adopted while the other thread was in a call on the first
C26_Witness ==
    /\ globalMu = 0
    /\ apiKeyIsSet
    /\ globalGeminiInstance = 2
    /\ pc[1] = "run"
    /\ local[1].client = 1
    /\ ret[2].fn = "SetAPIKey"

\* C27: every instance that was adopted as the global instance and has been
\* replaced or cleared since has been closed exactly once, and the instance
\* that is held has not been closed.
C27_ClosedExactlyOnce ==
    \A i \in 1..Len(instances) :
        instances[i].closed = IF i = globalGeminiInstance THEN 0 ELSE 1

\* one instance was replaced by a SetAPIKey that succeeded, its successor
\* cleared by one that did not, both threads having called SetAPIKey
C27_Witness ==
    /\ Len(instances) = 2
    /\ globalGeminiInstance = 0
    /\ instances[1].closed = 1
    /\ instances[2].closed = 1
    /\ ret[1].fn = "SetAPIKey"
    /\ ret[2].fn = "SetAPIKey"
    /\ ret[1].err = NilErr
    /\ ret[2].err # NilErr

-----------------------------------------------------------------------------
(* Properties of the backends called on their own, checked under BackendSpec *)

\* text is word, in any letter case, with any white space before and after
IsAnswer(text, word) ==
    \E i \in 0..Len(text) :
        /\ i + Len(word) <= Len(text)
        /\ \A k \in 1..i : IsSpace(text[k])
        /\ \A k \in 1..Len(word) : LowerChar(text[i + k]) = word[k]
        /\ \A k \in (i + Len(word) + 1)..Len(text) : IsSpace(text[k])

\* the backend answered the last queryFunc call with a text
AnsweredText == answer.backend # "none" /\ answer.resp.kind = "text"

\* C18: the queryFunc of each backend, given a text answer, returns true
\* exactly when the text, its surrounding white space and letter case set
\* aside, is "true", false exactly when it is "false", and undefined
\* otherwise, each with a nil error.
C18_AnswerParsing ==
    AnsweredText
    => /\ answer.ret.err = NilErr
       /\ answer.ret.res = True <=> IsAnswer(answer.resp.text, <<"t", "r", "u", "e">>)
       /\ answer.ret.res = False <=> IsAnswer(answer.resp.text, <<"f", "a", "l", "s", "e">>)
       /\ answer.ret.res = Undefined
            <=> /\ ~IsAnswer(answer.resp.text, <<"t", "r", "u", "e">>)
                /\ ~IsAnswer(answer.resp.text, <<"f", "a", "l", "s", "e">>)

C18_Witness ==
    /\ answer.backend = "openai"
    /\ answer.resp.kind = "text"
    /\ answer.resp.text = <<" ", "T", "r", "u", "e", "\n", "\t">>
    /\ answer.ret.res = True
    /\ answer.ret.err = NilErr

\* the backend call of the last queryFunc call failed mechanically: the
\* request failed, the status was not a success, or the body did not decode
MechanicalFailure == answer.resp.kind \in {"error", "status", "malformed"}

\* C19: the queryFunc of each backend returns a non-nil error exactly when
\* the backend call fails mechanically, and an undefined result with a nil
\* error for every call that succeeded without a recognizable answer, an
\* empty response and a blocked or filtered one included.
C19_ErrorIffMechanical ==
    answer.backend # "none"
    => /\ answer.ret.err # NilErr <=> MechanicalFailure
       /\ (~MechanicalFailure /\ answer.resp.kind # "text")
            => (answer.ret.res = Undefined /\ answer.ret.err = NilErr)

\* C20: NewIsEvenAiGemini with the empty API key returns no instance and
\* the error "gemini API key is required", whatever the model options.
C20_EmptyKeyMessage ==
    (made.called /\ made.apiKey = "")
    => /\ made.ret.ai = NoInstance
       /\ made.ret.err = <<"gemini API key is required">>

====
